---- MODULE Spec2Model ----
(***************************************************************************)
(* A model of the URL router of jsweb (src/jsweb/routing.py): the Route    *)
(* class (pattern compilation, matching, parameter conversion) and the     *)
(* Router class (add_route, resolve, url_for).                             *)
(*                                                                         *)
(* Text is modelled character by character: a Python str is a sequence of  *)
(* one-character strings, so that "'<' not in path", re.findall,           *)
(* str.replace and regular-expression matching are computed, not assumed.  *)
(* The alphabet of the model is lower-case letters, digits, "_", "/", ".", *)
(* "<", ">", ":", "-" and the newline; of the regular-expression           *)
(* metacharacters only "." occurs in a path pattern.                       *)
(***************************************************************************)
EXTENDS Integers, Sequences, FiniteSets, TLC

VARIABLES
    static_routes,   \* Router.static_routes: path -> Route
    dynamic_routes,  \* Router.dynamic_routes: sequence of Route
    endpoints,       \* Router.endpoints: endpoint name -> Route
    registered,      \* history: the add_route calls that returned normally, in order:
                     \* the Route each built and the methods argument it was given
    last,            \* the latest call: its arguments and its outcome
    repeated,        \* the latest call is a resolve that repeats the call before it
    served,          \* what JsWebApp._asgi_app_handler did with the latest request
    tasks            \* the resolve calls in progress: task -> its place in resolve

vars == <<static_routes, dynamic_routes, endpoints, registered, last, repeated,
          served, tasks>>

\* What the callers of the router hold.
callers == <<served, tasks>>

router == <<static_routes, dynamic_routes, endpoints>>

-----------------------------------------------------------------------------
(* Python values *)

\* Python's None, for an Optional[str] argument and for a missing handler.
None == "None"

\* Python's None for the Optional[List[str]] argument methods.
NoMethods == <<None>>

\* An empty dict.
EmptyDict == [x \in {} |-> x]

\* A Python int and a Python str as parameter values, in one shape.
IntVal(n) == [t |-> "int", n |-> n, s |-> <<>>]
StrVal(s) == [t |-> "str", n |-> 0, s |-> s]

Digits == <<"0", "1", "2", "3", "4", "5", "6", "7", "8", "9">>

DigitChars == {Digits[i] : i \in 1..10}

Letters ==
    {"a", "b", "c", "d", "e", "f", "g", "h", "i", "j", "k", "l", "m",
     "n", "o", "p", "q", "r", "s", "t", "u", "v", "w", "x", "y", "z"}

\* The characters the regular expression \w matches.
WordChars == Letters \cup DigitChars \cup {"_"}

DigitValue(c) == (CHOOSE i \in 1..10 : Digits[i] = c) - 1

RECURSIVE ParseInt(_)
\* int(text) for a text of decimal digits.
ParseInt(text) ==
    IF text = <<>> THEN 0
    ELSE 10 * ParseInt(SubSeq(text, 1, Len(text) - 1)) + DigitValue(text[Len(text)])

RECURSIVE FormatNat(_)
FormatNat(n) ==
    IF n < 10 THEN <<Digits[n + 1]>>
    ELSE FormatNat(n \div 10) \o <<Digits[(n % 10) + 1]>>

\* str(n) for an int.
FormatInt(n) == IF n < 0 THEN <<"-">> \o FormatNat(-n) ELSE FormatNat(n)

\* str(value) for an int or a str.
PyStr(v) == IF v.t = "int" THEN FormatInt(v.n) ELSE v.s

\* The converters int and str applied to captured text.
\* A variant that leaves every captured text as a string.
Convert_KeepText(conv, text) == StrVal(text)

Convert(conv, text) == IF conv = "int" THEN IntVal(ParseInt(text)) ELSE StrVal(text)

\* Length of the longest run of characters of class at s[i], s[i+1], ...
RECURSIVE RunLength(_, _, _)
RunLength(s, i, class) ==
    IF i <= Len(s) /\ s[i] \in class THEN 1 + RunLength(s, i + 1, class) ELSE 0

\* s[i..] starts with t.
StartsWithAt(s, i, t) ==
    /\ i + Len(t) - 1 <= Len(s)
    /\ \A k \in 1..Len(t) : s[i + k - 1] = t[k]

\* t in s, for sequences.
Contains(s, t) == \E i \in 1..(Len(s) + 1) : StartsWithAt(s, i, t)

RECURSIVE ReplaceFrom(_, _, _, _)
ReplaceFrom(s, i, old, new) ==
    IF i > Len(s) THEN <<>>
    ELSE IF StartsWithAt(s, i, old)
         THEN new \o ReplaceFrom(s, i + Len(old), old, new)
         ELSE <<s[i]>> \o ReplaceFrom(s, i + 1, old, new)

\* s.replace(old, new): every non-overlapping occurrence, left to right (old non-empty).
Replace(s, old, new) == ReplaceFrom(s, 1, old, new)

-----------------------------------------------------------------------------
(* Regular expressions, as far as Route uses them *)

\* The text of a regular expression is a sequence of items: a character, or a
\* named group (?P<name>part) standing for the characters that spell it.
Chr(c) == [k |-> "chr", c |-> c, name |-> <<>>, part |-> ""]
Group(name, part) == [k |-> "grp", c |-> "", name |-> name, part |-> part]

\* A str as regular-expression text.
Lift(s) == [i \in 1..Len(s) |-> Chr(s[i])]

Alphabet == WordChars \cup {"/", ".", "<", ">", ":", "-", "\n"}

\* The characters one repetition of a group's part matches.
PartClass(part) ==
    CASE part = "[^/]+" -> Alphabet \ {"/"}
      [] part = "\\d+"  -> DigitChars
      [] part = ".+?"   -> Alphabet \ {"\n"}

\* .+? takes as little as it can, [^/]+ and \d+ as much as they can.
PartIsLazy(part) == part = ".+?"

NoMatch == [ok |-> FALSE, groups |-> EmptyDict]

SetMin(S) == CHOOSE x \in S : \A y \in S : x <= y
SetMax(S) == CHOOSE x \in S : \A y \in S : x >= y

RECURSIVE MatchAt(_, _, _, _)
\* The backtracking matcher: items k.. of regex against text from position i.
\* The result is the first match in the order the matcher tries them.
MatchAt(regex, k, text, i) ==
    IF k > Len(regex) THEN [ok |-> TRUE, groups |-> EmptyDict]
    ELSE LET item == regex[k] IN
      IF item.k = "grp" THEN
        LET n == RunLength(text, i, PartClass(item.part))
            good == {len \in 1..n : MatchAt(regex, k + 1, text, i + len).ok}
        IN  IF good = {} THEN NoMatch
            ELSE LET len == IF PartIsLazy(item.part) THEN SetMin(good) ELSE SetMax(good)
                     rest == MatchAt(regex, k + 1, text, i + len)
                 IN  [ok |-> TRUE,
                      groups |-> (item.name :> SubSeq(text, i, i + len - 1)) @@ rest.groups]
      ELSE IF item.c = "^" THEN
        IF i = 1 THEN MatchAt(regex, k + 1, text, i) ELSE NoMatch
      ELSE IF item.c = "$" THEN
        \* the end of the text, or just before a newline that ends the text
        IF i = Len(text) + 1 \/ (i = Len(text) /\ text[i] = "\n")
        THEN MatchAt(regex, k + 1, text, i) ELSE NoMatch
      ELSE IF item.c = "." THEN
        IF i <= Len(text) /\ text[i] # "\n"
        THEN MatchAt(regex, k + 1, text, i + 1) ELSE NoMatch
      ELSE
        IF i <= Len(text) /\ text[i] = item.c
        THEN MatchAt(regex, k + 1, text, i + 1) ELSE NoMatch

\* regex.match(text): a match that starts at the first character.
ReMatch(regex, text) == MatchAt(regex, 1, text, 1)

\* re.compile raises re.error when two groups have one name.
ReCompileRaises(regex) ==
    \E i, j \in 1..Len(regex) :
        /\ i < j
        /\ regex[i].k = "grp" /\ regex[j].k = "grp"
        /\ regex[i].name = regex[j].name

\* A match of <(\w+):(\w+)> that starts at s[i].
MarkerAt(s, i) ==
    LET t == RunLength(s, i + 1, WordChars)
        n == RunLength(s, i + 2 + t, WordChars)
        colon == i + 1 + t
        close == i + 2 + t + n
    IN  IF /\ i <= Len(s) /\ s[i] = "<"
           /\ t >= 1
           /\ colon <= Len(s) /\ s[colon] = ":"
           /\ n >= 1
           /\ close <= Len(s) /\ s[close] = ">"
        THEN [ok |-> TRUE, next |-> close + 1,
              type |-> SubSeq(s, i + 1, i + t), name |-> SubSeq(s, colon + 1, close - 1)]
        ELSE [ok |-> FALSE, next |-> i + 1, type |-> <<>>, name |-> <<>>]

RECURSIVE FindallFrom(_, _)
FindallFrom(s, i) ==
    IF i > Len(s) THEN <<>>
    ELSE LET m == MarkerAt(s, i) IN
         IF m.ok THEN <<[type |-> m.type, name |-> m.name]>> \o FindallFrom(s, m.next)
         ELSE FindallFrom(s, m.next)

\* re.findall(r"<(\w+):(\w+)>", s): the (type, name) pairs, left to right.
Findall(s) == FindallFrom(s, 1)

-----------------------------------------------------------------------------
(* class Route *)

STR == <<"s", "t", "r">>
INT == <<"i", "n", "t">>
PATH == <<"p", "a", "t", "h">>

\* A variant in which a path parameter stops at a slash.
TYPE_CONVERTERS_PathOneSegment ==
    (STR :> [conv |-> "str", part |-> "[^/]+"]) @@
    (INT :> [conv |-> "int", part |-> "\\d+"]) @@
    (PATH :> [conv |-> "str", part |-> "[^/]+"])

TYPE_CONVERTERS ==
    (STR :> [conv |-> "str", part |-> "[^/]+"]) @@
    (INT :> [conv |-> "int", part |-> "\\d+"]) @@
    (PATH :> [conv |-> "str", part |-> ".+?"])

\* TYPE_CONVERTERS.get(type_name, TYPE_CONVERTERS['str'])
ConverterFor(type_name) ==
    IF type_name \in DOMAIN TYPE_CONVERTERS
    THEN TYPE_CONVERTERS[type_name] ELSE TYPE_CONVERTERS[STR]

\* f"<{type_name}:{param_name}>"
MarkerText(type_name, param_name) == <<"<">> \o type_name \o <<":">> \o param_name \o <<">">>

RECURSIVE CompileLoop(_, _, _)
\* The for loop of _compile_path from the i-th pair on; acc is
\* (regex_path, converters, param_names) so far.
CompileLoop(param_defs, i, acc) ==
    IF i > Len(param_defs) THEN acc
    ELSE LET d == param_defs[i]
             tc == ConverterFor(d.type)
         IN  CompileLoop(param_defs, i + 1,
                 [regex_path |-> Replace(acc.regex_path,
                                         Lift(MarkerText(d.type, d.name)),
                                         <<Group(d.name, tc.part)>>),
                  converters |-> (d.name :> tc.conv) @@ acc.converters,
                  param_names |-> Append(acc.param_names, d.name)])

\* Route._compile_path, before re.compile.
CompilePath(path) ==
    CompileLoop(Findall(path), 1,
        [regex_path |-> <<Chr("^")>> \o Lift(path) \o <<Chr("$")>>,
         converters |-> EmptyDict,
         param_names |-> <<>>])

\* '<' not in path
IsStatic(path) == ~Contains(path, <<"<">>)

\* Route.__init__ raises (re.error out of re.compile).
RouteRaises(path) == ~IsStatic(path) /\ ReCompileRaises(CompilePath(path).regex_path)

\* Route(path, handler, methods, endpoint). A static route has regex None,
\* here the empty sequence.
Route(path, handler, methods, endpoint) ==
    LET c == CompilePath(path) IN
    [path |-> path,
     handler |-> handler,
     methods_set |-> {methods[i] : i \in 1..Len(methods)},
     endpoint |-> endpoint,
     converters |-> IF IsStatic(path) THEN EmptyDict ELSE c.converters,
     is_static |-> IsStatic(path),
     regex |-> IF IsStatic(path) THEN <<>> ELSE c.regex_path,
     param_names |-> IF IsStatic(path) THEN <<>> ELSE c.param_names]

\* The longest digit string int() converts (sys.int_info.default_max_str_digits,
\* 4300 in CPython), scaled down to the lengths of the model's paths.
IntMaxStrDigits == 3

\* int(text) raises ValueError: the text is no numeral, or it has more digits
\* than int() converts. (int also accepts a sign, blanks and underscores; no
\* captured text of the model has them.)
IntRaises(text) ==
    \/ text = <<>>
    \/ \E i \in 1..Len(text) : text[i] \notin DigitChars
    \/ Len(text) > IntMaxStrDigits

Unmatched == [matched |-> FALSE, params |-> EmptyDict]

\* Route.match(path): matched is FALSE for the result None.
RouteMatch(route, path) ==
    IF route.is_static
    THEN IF path = route.path THEN [matched |-> TRUE, params |-> EmptyDict] ELSE Unmatched
    ELSE LET m == ReMatch(route.regex, path) IN
         IF ~m.ok THEN Unmatched
         ELSE IF \E name \in DOMAIN m.groups :
                    route.converters[name] = "int" /\ IntRaises(m.groups[name])
              THEN Unmatched
              ELSE [matched |-> TRUE,
                    params |-> [name \in DOMAIN m.groups |->
                                   Convert(route.converters[name], m.groups[name])]]

-----------------------------------------------------------------------------
(* class Router *)

\* A handler: a function object, with its __name__.
Handler(id, name) == [id |-> id, name |-> name]

NoHandler == Handler(None, None)

\* What a call does: it returns or it raises. The three ValueErrors of the
\* Router differ by their message and are named after what they report.
Returned(handler, params) ==
    [kind |-> "returned", handler |-> handler, params |-> params, url |-> <<>>]
ReturnedUrl(url) ==
    [kind |-> "returned", handler |-> NoHandler, params |-> EmptyDict, url |-> url]
Raised(kind) ==
    [kind |-> kind, handler |-> NoHandler, params |-> EmptyDict, url |-> <<>>]

\* A wrong default for methods: every method the model asks with.
MethodsOrDefault_AllMethods(methods) ==
    IF methods = NoMethods THEN <<"GET", "POST">> ELSE methods

\* methods after "if methods is None: methods = ['GET']"
MethodsOrDefault(methods) == IF methods = NoMethods THEN <<"GET">> ELSE methods

\* endpoint after "if endpoint is None: endpoint = handler.__name__"
EndpointOrDefault(endpoint, handler) == IF endpoint = None THEN handler.name ELSE endpoint

\* A wrong add_route: it refuses a static path that has a route.
AddRouteOutcome_PathTaken(eps, path, handler, methods, endpoint) ==
    IF EndpointOrDefault(endpoint, handler) \in DOMAIN eps THEN Raised("DuplicateEndpoint")
    ELSE IF RouteRaises(path) THEN Raised("re.error")
    ELSE IF path \in DOMAIN static_routes THEN Raised("DuplicatePath")
    ELSE ReturnedUrl(<<>>)

\* The outcome of Router.add_route on a router whose endpoints are eps.
AddRouteOutcome(eps, path, handler, methods, endpoint) ==
    IF EndpointOrDefault(endpoint, handler) \in DOMAIN eps THEN Raised("DuplicateEndpoint")
    ELSE IF RouteRaises(path) THEN Raised("re.error")
    ELSE ReturnedUrl(<<>>)

\* A wrong store: the key is the path without its last character.
StaticRoutesPut_KeyCutShort(sr, path, route) ==
    LET key == SubSeq(path, 1, Len(path) - 1) IN
    [p \in DOMAIN sr \cup {key} |-> IF p = key THEN route ELSE sr[p]]

\* A wrong store: a path that is taken keeps its first route.
StaticRoutesPut_KeepFirst(sr, path, route) ==
    IF path \in DOMAIN sr THEN sr
    ELSE [p \in DOMAIN sr \cup {path} |-> IF p = path THEN route ELSE sr[p]]

\* self.static_routes[path] = route
StaticRoutesPut(sr, path, route) ==
    [p \in DOMAIN sr \cup {path} |-> IF p = path THEN route ELSE sr[p]]

\* A wrong append: the new route goes to the front.
DynamicRoutesAppend_AtFront(dr, route) == <<route>> \o dr

\* A wrong append: a pattern that is registered keeps one place, and its
\* earlier route is dropped from the list.
DynamicRoutesAppend_OnePerPattern(dr, route) ==
    LET Other(r) == r.path # route.path IN Append(SelectSeq(dr, Other), route)

\* self.dynamic_routes.append(route)
DynamicRoutesAppend(dr, route) == Append(dr, route)

\* What add_route leaves in self.endpoints: it never stores into it.
EndpointsAfterAdd(eps, route) == eps

\* A wrong loop: the return is outside the test of params, so the first route
\* that accepts the method answers, with the parameters of no match.
ScanDynamic_NoMatchTest(dr, i, path, method) ==
    LET accepting == {k \in i..Len(dr) : method \in dr[k].methods_set} IN
    IF accepting = {} THEN Raised("NotFound")
    ELSE Returned(dr[SetMin(accepting)].handler,
                  RouteMatch(dr[SetMin(accepting)], path).params)

\* A wrong loop: a route whose pattern matches but which does not accept the
\* method makes the call fail with MethodNotAllowed when no route takes it.
ScanDynamic_MethodMismatchReported(dr, i, path, method) ==
    LET taking == {k \in i..Len(dr) :
                      method \in dr[k].methods_set /\ RouteMatch(dr[k], path).matched}
    IN  IF taking # {}
        THEN Returned(dr[SetMin(taking)].handler, RouteMatch(dr[SetMin(taking)], path).params)
        ELSE IF \E k \in i..Len(dr) : RouteMatch(dr[k], path).matched
        THEN Raised("MethodNotAllowed")
        ELSE Raised("NotFound")

\* A wrong loop: the first route that accepts the method and whose pattern
\* fits the path ends the scan, and a failed conversion of its parameters
\* leaves resolve as a ValueError.
ScanDynamic_ConversionErrorEscapes(dr, i, path, method) ==
    LET fitting == {k \in i..Len(dr) :
                       method \in dr[k].methods_set /\ ReMatch(dr[k].regex, path).ok}
    IN  IF fitting = {} THEN Raised("NotFound")
        ELSE IF RouteMatch(dr[SetMin(fitting)], path).matched
        THEN Returned(dr[SetMin(fitting)].handler, RouteMatch(dr[SetMin(fitting)], path).params)
        ELSE Raised("ValueError")

\* A wrong loop: the method is not looked at, and the first route that
\* matches the path answers.
ScanDynamic_NoMethodTest(dr, i, path, method) ==
    LET matching == {k \in i..Len(dr) : RouteMatch(dr[k], path).matched} IN
    IF matching = {} THEN Raised("NotFound")
    ELSE Returned(dr[SetMin(matching)].handler, RouteMatch(dr[SetMin(matching)], path).params)

RECURSIVE ScanDynamic(_, _, _, _)
\* The for loop of resolve from the i-th dynamic route on.
ScanDynamic(dr, i, path, method) ==
    IF i > Len(dr) THEN Raised("NotFound")
    ELSE IF method \notin dr[i].methods_set THEN ScanDynamic(dr, i + 1, path, method)
    ELSE LET m == RouteMatch(dr[i], path) IN
         IF m.matched THEN Returned(dr[i].handler, m.params)
         ELSE ScanDynamic(dr, i + 1, path, method)

\* A wrong resolve: the dynamic routes are an iterator that the first scan
\* uses up, so a resolve right after a resolve finds none.
Resolve_ScanUsedUp(sr, dr, path, method) ==
    IF path \in DOMAIN sr
    THEN IF method \in sr[path].methods_set
         THEN Returned(sr[path].handler, EmptyDict)
         ELSE Raised("MethodNotAllowed")
    ELSE IF last.op = "resolve" THEN Raised("NotFound")
    ELSE ScanDynamic(dr, 1, path, method)

\* A wrong resolve: a static route that does not accept the method leaves the
\* call to the dynamic routes.
Resolve_DynamicAfterStatic(sr, dr, path, method) ==
    IF path \in DOMAIN sr /\ method \in sr[path].methods_set
    THEN Returned(sr[path].handler, EmptyDict)
    ELSE IF path \in DOMAIN sr /\ ScanDynamic(dr, 1, path, method).kind = "NotFound"
    THEN Raised("MethodNotAllowed")
    ELSE ScanDynamic(dr, 1, path, method)

\* Router.resolve(path, method)
Resolve(sr, dr, path, method) ==
    IF path \in DOMAIN sr
    THEN IF method \in sr[path].methods_set
         THEN Returned(sr[path].handler, EmptyDict)
         ELSE Raised("MethodNotAllowed")
    ELSE ScanDynamic(dr, 1, path, method)

\* Route.TYPE_CONVERTERS.keys(), in the order of the dict literal.
TypeNames == <<STR, INT, PATH>>

\* The inner for loop of url_for: the first type whose marker is in path
\* is replaced by str(params[param_name]).
SubstituteParam(path, param_name, value) ==
    LET hits == {t \in 1..Len(TypeNames) :
                    Contains(path, MarkerText(TypeNames[t], param_name))}
    IN  IF hits = {} THEN path
        ELSE Replace(path, MarkerText(TypeNames[SetMin(hits)], param_name), PyStr(value))

RECURSIVE UrlLoop(_, _, _, _)
\* The outer for loop of url_for from the i-th parameter name on.
UrlLoop(param_names, i, path, params) ==
    IF i > Len(param_names) THEN ReturnedUrl(path)
    ELSE IF param_names[i] \notin DOMAIN params THEN Raised("MissingParameter")
    ELSE UrlLoop(param_names, i + 1,
                 SubstituteParam(path, param_names[i], params[param_names[i]]), params)

\* Router.url_for(endpoint, **params)
UrlFor(eps, endpoint, params) ==
    IF endpoint \notin DOMAIN eps THEN Raised("UnknownEndpoint")
    ELSE LET route == eps[endpoint] IN
         IF route.is_static THEN ReturnedUrl(route.path)
         ELSE UrlLoop(route.param_names, 1, route.path, params)

-----------------------------------------------------------------------------
(* The calls of the program *)

\* What the host has done with a request: the handler invocations it made
\* (handler and keyword arguments), whether a response went out and with what
\* status line, and the exception that left _asgi_app_handler, if any.
Served(invoked, sent, status, raised) ==
    [invoked |-> invoked, sent |-> sent, status |-> status, raised |-> raised]

NothingServed == Served(<<>>, FALSE, <<>>, None)

\* The tasks that call resolve side by side.
Tasks == {"t1", "t2"}

\* A task that is not inside resolve. began and ended are history: how many
\* routes were registered when the task's call began and when it ended.
IdleTask ==
    [pc |-> "idle", path |-> <<>>, method |-> None, i |-> 0, beside |-> FALSE,
     began |-> 0, ended |-> 0, out |-> ReturnedUrl(<<>>)]

\* The record of a call: the arguments it does not have are left at None.
Call(op, path, method, handler, methods, endpoint, params, out) ==
    [op |-> op, path |-> path, method |-> method, handler |-> handler,
     methods |-> methods, endpoint |-> endpoint, params |-> params, out |-> out]

\* Router(): the three collections are empty.
Init ==
    /\ static_routes = EmptyDict
    /\ dynamic_routes = <<>>
    /\ endpoints = EmptyDict
    /\ registered = <<>>
    /\ last = Call("init", <<>>, None, NoHandler, NoMethods, None, EmptyDict, ReturnedUrl(<<>>))
    /\ repeated = FALSE
    /\ served = NothingServed
    /\ tasks = [t \in Tasks |-> IdleTask]

\* The number of add_route calls that succeed in one run of the model.
MaxRoutes == 2

\* router.add_route(path, handler, methods, endpoint)
AddRoute(path, handler, methods, endpoint) ==
    LET out == AddRouteOutcome(endpoints, path, handler, methods, endpoint)
        route == Route(path, handler, MethodsOrDefault(methods),
                       EndpointOrDefault(endpoint, handler))
    IN  /\ Len(registered) < MaxRoutes
        /\ last' = Call("add_route", path, None, handler, methods, endpoint, EmptyDict, out)
        /\ repeated' = FALSE
        /\ IF out.kind = "returned"
           THEN /\ IF route.is_static
                   THEN /\ static_routes' = StaticRoutesPut(static_routes, path, route)
                        /\ dynamic_routes' = dynamic_routes
                   ELSE /\ dynamic_routes' = DynamicRoutesAppend(dynamic_routes, route)
                        /\ static_routes' = static_routes
                /\ endpoints' = EndpointsAfterAdd(endpoints, route)
                /\ registered' = Append(registered,
                                    [route |-> route, methods |-> methods])
           ELSE UNCHANGED <<static_routes, dynamic_routes, endpoints, registered>>
        /\ UNCHANGED callers

\* A wrong resolve: it remembers a dynamic answer as a static route of the path.
ResolveCall_Caching(path, method) ==
    LET out == Resolve(static_routes, dynamic_routes, path, method) IN
    /\ last' = Call("resolve", path, method, NoHandler, NoMethods, None, EmptyDict, out)
    /\ repeated' = (last.op = "resolve" /\ last.path = path /\ last.method = method)
    /\ static_routes' =
          IF out.kind = "returned" /\ path \notin DOMAIN static_routes
          THEN StaticRoutesPut(static_routes, path,
                               Route(path, out.handler, <<method>>, None))
          ELSE static_routes
    /\ UNCHANGED <<dynamic_routes, endpoints, registered>>
    /\ UNCHANGED callers

\* router.resolve(path, method)
ResolveCall(path, method) ==
    /\ last' = Call("resolve", path, method, NoHandler, NoMethods, None, EmptyDict,
                    Resolve(static_routes, dynamic_routes, path, method))
    /\ repeated' = (last.op = "resolve" /\ last.path = path /\ last.method = method)
    /\ UNCHANGED <<static_routes, dynamic_routes, endpoints, registered>>
    /\ UNCHANGED callers

\* router.url_for(endpoint, **params)
UrlForCall(endpoint, params) ==
    /\ last' = Call("url_for", <<>>, None, NoHandler, NoMethods, endpoint, params,
                    UrlFor(endpoints, endpoint, params))
    /\ repeated' = FALSE
    /\ UNCHANGED <<static_routes, dynamic_routes, endpoints, registered>>
    /\ UNCHANGED callers

-----------------------------------------------------------------------------
(* The host: JsWebApp._asgi_app_handler and the response classes *)

\* status: str = "200 OK"
StatusOK == <<"2", "0", "0", " ", "O", "K">>

\* A Response object, or the exception its construction raised.
ResponseObject(status) == [raised |-> None, status |-> status]
ConstructionRaised(exception) == [raised |-> exception, status |-> <<>>]

\* The parameters of JSONResponse.__init__ besides self.
JSONResponseParameters == {"data", "status", "headers"}

\* JSONResponse(data, **keywords): a call with a keyword that __init__ does
\* not declare raises TypeError.
JSONResponse(keywords) ==
    IF {"data"} \cup DOMAIN keywords \subseteq JSONResponseParameters
    THEN ResponseObject(IF "status" \in DOMAIN keywords THEN keywords["status"] ELSE StatusOK)
    ELSE ConstructionRaised("TypeError")

\* The methods class Response and its subclasses define.
ResponseMethods == {"__init__", "to_wsgi"}

\* await response(scope, receive, send): calling an object whose class has no
\* __call__ raises TypeError.
Send(response, invoked) ==
    IF "__call__" \in ResponseMethods
    THEN Served(invoked, TRUE, response.status, None)
    ELSE Served(invoked, FALSE, <<>>, "TypeError")

\* The except clauses: JSONResponse({"error": ...}, status_code=code), then
\* the response is sent.
AnswerError(code) ==
    LET response == JSONResponse("status_code" :> code) IN
    IF response.raised # None
    THEN Served(<<>>, FALSE, <<>>, response.raised)
    ELSE Send(response, <<>>)

\* What a view function returns: a Response, a str, or something else.
ViewResults == {"Response", "str", "other"}

\* _asgi_app_handler after resolve came back with outcome r, for a view that
\* returns result and a request with or without a new CSRF token.
AsgiAppHandler(req, r, result, new_csrf) ==
    IF r.kind = "NotFound" THEN AnswerError(404)
    ELSE IF r.kind = "MethodNotAllowed" THEN AnswerError(405)
    ELSE IF r.kind # "returned" THEN AnswerError(500)
    ELSE LET invoked == <<[handler |-> r.handler, req |-> req, keywords |-> r.params]>> IN
         IF result = "other" THEN Served(invoked, FALSE, <<>>, "TypeError")
         ELSE IF new_csrf /\ "set_cookie" \notin ResponseMethods
         THEN Served(invoked, FALSE, <<>>, "AttributeError")
         ELSE Send(ResponseObject(StatusOK), invoked)

\* One request through _asgi_app_handler.
HandleRequest(path, method, result, new_csrf) ==
    LET r == Resolve(static_routes, dynamic_routes, path, method) IN
    /\ served' = AsgiAppHandler([path |-> path, method |-> method], r, result, new_csrf)
    /\ last' = Call("handle", path, method, NoHandler, NoMethods, None, EmptyDict, r)
    /\ repeated' = FALSE
    /\ UNCHANGED <<static_routes, dynamic_routes, endpoints, registered, tasks>>

-----------------------------------------------------------------------------
(* Router.resolve, statement by statement, in tasks that run side by side *)

\* The task is inside resolve.
Inside(t) == tasks[t].pc \notin {"idle", "done"}

\* No task has called resolve yet.
NoResolveBegun == \A t \in Tasks : tasks[t].pc = "idle"

\* A wrong loop: the tasks share one iterator over dynamic_routes, so that a
\* task goes on behind the furthest place any task has reached.
NextIndex_SharedIterator(t) == 1 + SetMax({tasks[u].i : u \in Tasks})

\* A wrong loop: the iterator does not move on.
NextIndex_Stuck(t) == tasks[t].i

\* for route in self.dynamic_routes: the place after the one the task is at.
NextIndex(t) == tasks[t].i + 1

\* The task calls resolve(path, method). Tasks that are inside resolve at
\* that moment, and the caller when there are such, are marked as running
\* beside another.
ResolveBegin(t, path, method) ==
    /\ ~Inside(t)
    /\ tasks' = [u \in Tasks |->
                    IF u = t
                    THEN [pc |-> "lookup", path |-> path, method |-> method, i |-> 0,
                          beside |-> \E v \in Tasks : Inside(v),
                          began |-> Len(registered), ended |-> 0,
                          out |-> ReturnedUrl(<<>>)]
                    ELSE IF Inside(u) THEN [tasks[u] EXCEPT !.beside = TRUE]
                    ELSE tasks[u]]
    /\ UNCHANGED <<static_routes, dynamic_routes, endpoints, registered, last, repeated, served>>

\* if path in self.static_routes:
ResolveLookup(t) ==
    /\ tasks[t].pc = "lookup"
    /\ tasks' = [tasks EXCEPT ![t] =
                    IF tasks[t].path \in DOMAIN static_routes
                    THEN [@ EXCEPT !.pc = "static"]
                    ELSE [@ EXCEPT !.pc = "scan", !.i = 1]]
    /\ UNCHANGED <<static_routes, dynamic_routes, endpoints, registered, last, repeated, served>>

\* route = self.static_routes[path], and the return or raise that follows.
ResolveStatic(t) ==
    /\ tasks[t].pc = "static"
    /\ tasks' = [tasks EXCEPT ![t] =
                    [@ EXCEPT !.pc = "done", !.ended = Len(registered),
                              !.out = IF tasks[t].path \notin DOMAIN static_routes
                                      THEN Raised("KeyError")
                                      ELSE IF tasks[t].method \in
                                                static_routes[tasks[t].path].methods_set
                                      THEN Returned(static_routes[tasks[t].path].handler,
                                                    EmptyDict)
                                      ELSE Raised("MethodNotAllowed")]]
    /\ UNCHANGED <<static_routes, dynamic_routes, endpoints, registered, last, repeated, served>>

\* One turn of the for loop over self.dynamic_routes, or the raise behind it
\* when the list has no i-th element.
ResolveScan(t) ==
    /\ tasks[t].pc = "scan"
    /\ tasks' = [tasks EXCEPT ![t] =
                    IF tasks[t].i > Len(dynamic_routes)
                    THEN [@ EXCEPT !.pc = "done", !.ended = Len(registered),
                                   !.out = Raised("NotFound")]
                    ELSE LET route == dynamic_routes[tasks[t].i] IN
                         IF tasks[t].method \notin route.methods_set
                         THEN [@ EXCEPT !.i = NextIndex(t)]
                         ELSE LET m == RouteMatch(route, tasks[t].path) IN
                              IF m.matched
                              THEN [@ EXCEPT !.pc = "done", !.ended = Len(registered),
                                             !.out = Returned(route.handler, m.params)]
                              ELSE [@ EXCEPT !.i = NextIndex(t)]]
    /\ UNCHANGED <<static_routes, dynamic_routes, endpoints, registered, last, repeated, served>>

\* add_route during startup: before any task has called resolve.
AddRouteAtStartup(path, handler, methods, endpoint) ==
    /\ NoResolveBegun
    /\ AddRoute(path, handler, methods, endpoint)

-----------------------------------------------------------------------------
(* The inputs of the model *)

PathTwelve == <<"/", "u", "/", "1", "2">>
PathUserInt == <<"/", "u", "/", "<", "i", "n", "t", ":", "i", "d", ">">>
PathUserStr == <<"/", "u", "/", "<", "s", "t", "r", ":", "n", ">">>

ID == <<"i", "d">>

\* One static path, which both dynamic patterns also describe, and two
\* dynamic patterns that overlap.
Patterns == {PathTwelve, PathUserInt, PathUserStr}

\* Two functions; add_route without an endpoint names the route after one.
Handlers == {Handler("h1", "home"), Handler("h2", "user")}

MethodLists == {NoMethods, <<"POST">>, <<"GET", "POST">>}

EndpointArgs == {None, "home"}

\* A digit run, a segment with a letter, and a digit run before a newline.
RequestPaths ==
    {PathTwelve, <<"/", "u", "/", "1", "a">>, <<"/", "u", "/", "1", "2", "\n">>}

RequestMethods == {"GET", "POST"}

EndpointNames == {"home", "user"}

ParamDicts == {EmptyDict, ID :> IntVal(42)}

Next ==
    \/ \E path \in Patterns, handler \in Handlers,
          methods \in MethodLists, endpoint \in EndpointArgs :
            AddRoute(path, handler, methods, endpoint)
    \/ \E path \in RequestPaths, method \in RequestMethods : ResolveCall(path, method)
    \/ \E endpoint \in EndpointNames, params \in ParamDicts : UrlForCall(endpoint, params)

Spec == Init /\ [][Next]_vars

-----------------------------------------------------------------------------
(* A second set of inputs: the parameter types and the shapes of a pattern *)

PathUserPost ==
    <<"/", "u", "/", "<", "i", "n", "t", ":", "i", "d", ">",
      "/", "p", "/", "<", "i", "n", "t", ":", "n", ">">>
PathFilePath == <<"/", "f", "/", "<", "p", "a", "t", "h", ":", "p", ">">>
PathFileStr == <<"/", "f", "/", "<", "s", "t", "r", ":", "n", ">">>
PathAngle == <<"/", "a", "<", "b">>

\* Two int markers, a path marker, a str marker at the same place, and a
\* path with a '<' that starts no marker.
ShapePatterns == {PathUserPost, PathFilePath, PathFileStr, PathAngle}

ShapeMethodLists == {NoMethods, <<"POST">>}

\* Text for two int slots, a remainder with a slash, one without, one that
\* ends in a newline, and the path with the '<'.
ShapeRequestPaths ==
    {<<"/", "u", "/", "4", "2", "/", "p", "/", "7">>,
     <<"/", "f", "/", "d", "/", "r">>,
     <<"/", "f", "/", "j", "d">>,
     <<"/", "f", "/", "j", "d", "\n">>,
     PathAngle}

NextShapes ==
    \/ \E path \in ShapePatterns, handler \in Handlers, methods \in ShapeMethodLists :
            AddRoute(path, handler, methods, None)
    \/ \E path \in ShapeRequestPaths, method \in RequestMethods : ResolveCall(path, method)
    \/ \E endpoint \in EndpointNames, params \in ParamDicts : UrlForCall(endpoint, params)

SpecShapes == Init /\ [][NextShapes]_vars

-----------------------------------------------------------------------------
(* The router behind the host *)

NextHost ==
    \/ \E path \in Patterns, handler \in Handlers, methods \in ShapeMethodLists :
            AddRoute(path, handler, methods, None)
    \/ \E path \in RequestPaths, method \in RequestMethods,
          result \in ViewResults, new_csrf \in BOOLEAN :
            HandleRequest(path, method, result, new_csrf)

SpecHost == Init /\ [][NextHost]_vars

-----------------------------------------------------------------------------
(* The router built at startup and then read by the tasks *)

StartupPatterns == {PathTwelve, PathUserInt}

TaskPaths == {<<"/", "u", "/", "1", "2">>, <<"/", "u", "/", "1", "a">>}

NextTasks ==
    \/ \E path \in StartupPatterns, handler \in Handlers, methods \in ShapeMethodLists :
            AddRouteAtStartup(path, handler, methods, None)
    \/ \E t \in Tasks, path \in TaskPaths, method \in RequestMethods :
            ResolveBegin(t, path, method)
    \/ \E t \in Tasks : ResolveLookup(t)
    \/ \E t \in Tasks : ResolveStatic(t)
    \/ \E t \in Tasks : ResolveScan(t)

SpecTasks == Init /\ [][NextTasks]_vars

-----------------------------------------------------------------------------
(* A third set of inputs: the corners of add_route and of the patterns *)

\* A marker of a type that TYPE_CONVERTERS does not have.
PathUserUuid == <<"/", "u", "/", "<", "u", "u", "i", "d", ":", "n", ">">>
\* Literal text with a '.' behind the marker.
PathUserDotted == <<"/", "u", "/", "<", "s", "t", "r", ":", "n", ">", ".", "t">>
\* Two markers of one name: re.compile refuses the pattern.
PathNameTwice ==
    <<"/", "u", "/", "<", "i", "n", "t", ":", "n", ">", "/", "<", "s", "t", "r", ":", "n", ">">>

CornerPatterns == {PathUserInt, PathUserStr, PathUserUuid, PathUserDotted, PathNameTwice}

\* methods omitted, and methods=[].
CornerMethodLists == {NoMethods, <<>>}

\* A digit run longer than int() converts, text that fits the dotted pattern,
\* and text that differs from it at the place of the '.'.
CornerRequestPaths ==
    {<<"/", "u", "/", "1", "2", "3", "4", "5">>,
     <<"/", "u", "/", "a", ".", "t">>,
     <<"/", "u", "/", "a", "x", "t">>}

N == <<"n">>

CornerParamDicts == {EmptyDict, N :> StrVal(<<"a">>)}

NextCorners ==
    \/ \E path \in CornerPatterns, handler \in Handlers, methods \in CornerMethodLists :
            AddRoute(path, handler, methods, None)
    \/ \E path \in CornerRequestPaths, method \in RequestMethods : ResolveCall(path, method)
    \/ \E endpoint \in EndpointNames, params \in CornerParamDicts : UrlForCall(endpoint, params)

SpecCorners == Init /\ [][NextCorners]_vars

-----------------------------------------------------------------------------
(* The router written while a task reads it *)

\* The task whose resolve runs while routes are added.
Reader == "t1"

NextRace ==
    \/ \E path \in StartupPatterns, handler \in Handlers, methods \in ShapeMethodLists :
            AddRoute(path, handler, methods, None)
    \/ \E path \in TaskPaths, method \in RequestMethods : ResolveBegin(Reader, path, method)
    \/ ResolveLookup(Reader)
    \/ ResolveStatic(Reader)
    \/ ResolveScan(Reader)

SpecRace == Init /\ [][NextRace]_vars

-----------------------------------------------------------------------------
(* One resolve on a finished router, run to its end *)

NextAlone ==
    \/ \E path \in StartupPatterns, handler \in Handlers, methods \in ShapeMethodLists :
            AddRouteAtStartup(path, handler, methods, None)
    \/ \E path \in TaskPaths, method \in RequestMethods : ResolveBegin(Reader, path, method)
    \/ ResolveLookup(Reader)
    \/ ResolveStatic(Reader)
    \/ ResolveScan(Reader)

\* resolve has no await and takes no lock: the thread that is inside it goes
\* on to its next statement.
SpecAloneFair ==
    /\ Init /\ [][NextAlone]_vars
    /\ WF_vars(ResolveLookup(Reader) \/ ResolveStatic(Reader) \/ ResolveScan(Reader))

-----------------------------------------------------------------------------
(* Notions the properties share *)

\* The i-th route that add_route registered.
Reg(i) == registered[i].route

RegIndices == 1..Len(registered)

\* The endpoint names under which a route was registered.
RegisteredEndpoints == {Reg(i).endpoint : i \in RegIndices}

\* No endpoint name was registered twice.
EndpointsUnique ==
    \A i, j \in RegIndices : i # j => Reg(i).endpoint # Reg(j).endpoint

\* The i-th registered route is static and no later static route took its path.
LatestStaticAt(i) ==
    /\ Reg(i).is_static
    /\ \A j \in RegIndices : (j > i /\ Reg(j).is_static) => Reg(j).path # Reg(i).path

\* How resolve must answer for a static route R and the method asked for.
StaticAnswer(R, method) ==
    IF method \in R.methods_set THEN Returned(R.handler, EmptyDict)
    ELSE Raised("MethodNotAllowed")

-----------------------------------------------------------------------------
(* C1: static routes *)

\* C1 as stated: after resolve(P, m), for EVERY static route R that was
\* registered with path P and method set M, the outcome is R's handler with
\* empty parameters if m is in M and MethodNotAllowed if not. It is stated for
\* the runs in which no endpoint name was reused, so that its violation does
\* not rest on add_route accepting a duplicate endpoint.
C1_EveryRegisteredStaticRouteAnswers ==
    (last.op = "resolve" /\ EndpointsUnique) =>
        \A i \in RegIndices :
            (Reg(i).is_static /\ Reg(i).path = last.path) =>
                last.out = StaticAnswer(Reg(i), last.method)

\* C1 amended: after resolve(P, m), for the static route R most recently
\* registered with path P, the outcome is R's handler with empty parameters
\* if m is in R's method set and MethodNotAllowed if not.
C1_LatestStaticRouteAnswers ==
    last.op = "resolve" =>
        \A i \in RegIndices :
            (LatestStaticAt(i) /\ Reg(i).path = last.path) =>
                last.out = StaticAnswer(Reg(i), last.method)

\* A path registered twice, under two endpoints, with different handlers:
\* resolve answers with the handler of the second registration.
C1_Witness ==
    /\ last.op = "resolve"
    /\ EndpointsUnique
    /\ \E i, j \in RegIndices :
        /\ i < j
        /\ Reg(i).is_static /\ LatestStaticAt(j)
        /\ Reg(i).path = last.path /\ Reg(j).path = last.path
        /\ Reg(i).handler # Reg(j).handler
        /\ last.method \in Reg(i).methods_set \cap Reg(j).methods_set
        /\ last.out = Returned(Reg(j).handler, EmptyDict)

-----------------------------------------------------------------------------
(* C2: duplicate endpoint names *)

\* The routes registered before the latest call, when that call is add_route.
RegisteredBefore ==
    IF last.op = "add_route" /\ last.out.kind = "returned"
    THEN SubSeq(registered, 1, Len(registered) - 1) ELSE registered

\* C2: an add_route whose endpoint name an earlier successful add_route used
\* fails with DuplicateEndpoint, and no two registered routes share an
\* endpoint name.
C2_DuplicateEndpointRejected ==
    /\ (/\ last.op = "add_route"
        /\ \E i \in 1..Len(RegisteredBefore) :
              RegisteredBefore[i].route.endpoint
                  = EndpointOrDefault(last.endpoint, last.handler))
       => last.out.kind = "DuplicateEndpoint"
    /\ EndpointsUnique

-----------------------------------------------------------------------------
(* C3, C4: url_for *)

RECURSIVE ExpectedUrlFrom(_, _, _)
\* The pattern with every <type:name> marker replaced by the string form of
\* params[name], read off the pattern from position i on.
ExpectedUrlFrom(pattern, i, params) ==
    IF i > Len(pattern) THEN <<>>
    ELSE IF pattern[i] = "<" /\ \E j \in (i + 1)..Len(pattern) : pattern[j] = ">"
    THEN LET close == SetMin({j \in (i + 1)..Len(pattern) : pattern[j] = ">"})
             colon == SetMin({j \in (i + 1)..close : pattern[j] \in {":", ">"}})
             name == SubSeq(pattern, colon + 1, close - 1)
         IN  PyStr(params[name]) \o ExpectedUrlFrom(pattern, close + 1, params)
    ELSE <<pattern[i]>> \o ExpectedUrlFrom(pattern, i + 1, params)

\* The declared parameter names of a registered route.
DeclaredNames(R) == {R.param_names[k] : k \in 1..Len(R.param_names)}

\* C3: for every route registered under endpoint e, url_for(e, params) with
\* every declared parameter name in params returns the literal path of a static
\* route, and for a dynamic route the pattern with each marker replaced by the
\* string form of its value.
C3_UrlForBuildsThePath ==
    last.op = "url_for" =>
        \A i \in RegIndices :
            (Reg(i).endpoint = last.endpoint /\ DeclaredNames(Reg(i)) \subseteq DOMAIN last.params)
                => last.out = ReturnedUrl(ExpectedUrlFrom(Reg(i).path, 1, last.params))

\* C4: url_for raises UnknownEndpoint exactly when no route was registered
\* under the endpoint, and MissingParameter exactly when a dynamic route was
\* registered under it and one of its declared names is not in params.
\* (url_for changes nothing: C9_LookupsAreReadOnly.)
C4_UrlForErrorsExact ==
    last.op = "url_for" =>
        /\ last.out.kind = "UnknownEndpoint" <=> last.endpoint \notin RegisteredEndpoints
        /\ last.out.kind = "MissingParameter" <=>
              \E i \in RegIndices :
                  /\ Reg(i).endpoint = last.endpoint
                  /\ ~Reg(i).is_static
                  /\ ~(DeclaredNames(Reg(i)) \subseteq DOMAIN last.params)

-----------------------------------------------------------------------------
(* Notions for the dynamic routes *)

\* No static route was registered with this path.
NotAStaticPath(path) == \A k \in RegIndices : Reg(k).is_static => Reg(k).path # path

\* The i-th registered route is dynamic, accepts the method, and its match
\* succeeds on the path.
Takes(i, path, method) ==
    /\ ~Reg(i).is_static
    /\ method \in Reg(i).methods_set
    /\ RouteMatch(Reg(i), path).matched

\* The i-th registered route is the first registered one that takes the call.
FirstToTake(i, path, method) ==
    /\ Takes(i, path, method)
    /\ \A k \in RegIndices : k < i => ~Takes(k, path, method)

\* No other registered route has the handler of the i-th.
HandlerUnique(i) == \A j \in RegIndices : j # i => Reg(j).handler # Reg(i).handler

-----------------------------------------------------------------------------
(* C5: precedence among dynamic routes *)

\* The i-th registered route is dynamic and its pattern matches the path.
PatternMatches(i, path) == ~Reg(i).is_static /\ RouteMatch(Reg(i), path).matched

\* C5 as stated: when the patterns of two or more dynamic routes match the
\* path, resolve returns the handler of the one registered first, whatever
\* the method. (For the runs in which no endpoint name was reused.)
C5_FirstMatchingPatternWins ==
    (last.op = "resolve" /\ EndpointsUnique) =>
        \A i, j \in RegIndices :
            (/\ i < j
             /\ PatternMatches(i, last.path) /\ PatternMatches(j, last.path)
             /\ \A k \in RegIndices : k < i => ~PatternMatches(k, last.path))
            => (last.out.kind = "returned" /\ last.out.handler = Reg(i).handler)

\* C5 amended: when the path is not the path of a static route and two or
\* more dynamic routes accept the method and match the path, resolve returns
\* the handler (and the parameters) of the one registered first.
C5_FirstRegisteredTakerWins ==
    (last.op = "resolve" /\ NotAStaticPath(last.path)) =>
        \A i, j \in RegIndices :
            (/\ i < j
             /\ FirstToTake(i, last.path, last.method)
             /\ Takes(j, last.path, last.method))
            => last.out = Returned(Reg(i).handler, RouteMatch(Reg(i), last.path).params)

\* Two dynamic routes with different handlers and different patterns take the
\* same call, and the answer is the handler of the first.
C5_Witness ==
    /\ last.op = "resolve"
    /\ \E i, j \in RegIndices :
        /\ i < j
        /\ FirstToTake(i, last.path, last.method)
        /\ Takes(j, last.path, last.method)
        /\ Reg(i).handler # Reg(j).handler
        /\ Reg(i).path # Reg(j).path
        /\ last.out.handler = Reg(i).handler

-----------------------------------------------------------------------------
(* C6: int parameters *)

FirstIndexOf(s, c) == SetMin({k \in 1..Len(s) : s[k] = c})

Count(s, c) == Cardinality({k \in 1..Len(s) : s[k] = c})

\* The pattern is literal text, one marker <type:name>, literal text.
OneMarker(pattern) ==
    /\ Count(pattern, "<") = 1 /\ Count(pattern, ">") = 1 /\ Count(pattern, ":") = 1
    /\ FirstIndexOf(pattern, "<") < FirstIndexOf(pattern, ":")
    /\ FirstIndexOf(pattern, ":") < FirstIndexOf(pattern, ">")

MarkerType(pattern) ==
    SubSeq(pattern, FirstIndexOf(pattern, "<") + 1, FirstIndexOf(pattern, ":") - 1)
MarkerName(pattern) ==
    SubSeq(pattern, FirstIndexOf(pattern, ":") + 1, FirstIndexOf(pattern, ">") - 1)
TextBefore(pattern) == SubSeq(pattern, 1, FirstIndexOf(pattern, "<") - 1)
TextAfter(pattern) == SubSeq(pattern, FirstIndexOf(pattern, ">") + 1, Len(pattern))

\* The path is the pattern's text with something non-empty in the marker's slot.
HasSlot(pattern, path) ==
    /\ Len(path) > Len(TextBefore(pattern)) + Len(TextAfter(pattern))
    /\ SubSeq(path, 1, Len(TextBefore(pattern))) = TextBefore(pattern)
    /\ SubSeq(path, Len(path) - Len(TextAfter(pattern)) + 1, Len(path)) = TextAfter(pattern)

\* The segment of the path in the marker's slot.
Slot(pattern, path) ==
    SubSeq(path, Len(TextBefore(pattern)) + 1, Len(path) - Len(TextAfter(pattern)))

IsDigitRun(s) == s # <<>> /\ \A k \in 1..Len(s) : s[k] \in DigitChars

RECURSIVE DecimalValue(_, _)
\* The value of the decimal numeral s, digit by digit from the left.
DecimalValue(s, acc) ==
    IF s = <<>> THEN acc
    ELSE DecimalValue(Tail(s), 10 * acc + DigitValue(Head(s)))

\* The i-th registered route has one marker, of type int.
IntRoute(i) == OneMarker(Reg(i).path) /\ MarkerType(Reg(i).path) = INT

\* The first dynamic route that accepts the method is the i-th: resolve puts
\* the path to it before any other.
AskedFirst(i, path, method) ==
    /\ NotAStaticPath(path)
    /\ ~Reg(i).is_static /\ method \in Reg(i).methods_set
    /\ \A k \in RegIndices : k < i => ~Takes(k, path, method)

\* C6: when resolve puts a path to a route with an int parameter, a digit run
\* in the slot gives that route's handler and the parameter as the integer the
\* digits denote; a slot with a non-digit is not matched by that route, so
\* resolve answers with a later route that takes the call, or with NotFound.
C6_IntSlotTakesOnlyDigits ==
    last.op = "resolve" =>
        \A i \in RegIndices :
            (IntRoute(i) /\ AskedFirst(i, last.path, last.method)) =>
                IF HasSlot(Reg(i).path, last.path) /\ IsDigitRun(Slot(Reg(i).path, last.path))
                THEN last.out = Returned(Reg(i).handler,
                                    MarkerName(Reg(i).path) :>
                                        IntVal(DecimalValue(Slot(Reg(i).path, last.path), 0)))
                ELSE \/ last.out = Raised("NotFound")
                            /\ \A j \in RegIndices : j > i => ~Takes(j, last.path, last.method)
                     \/ \E j \in RegIndices :
                            /\ j > i
                            /\ Takes(j, last.path, last.method)
                            /\ last.out = Returned(Reg(j).handler,
                                               RouteMatch(Reg(j), last.path).params)

-----------------------------------------------------------------------------
(* C7: NotFound *)

\* C7: resolve raises NotFound whenever the path is not the path of a static
\* route and no dynamic route's pattern matches it.
C7_UnmatchedPathIsNotFound ==
    (/\ last.op = "resolve"
     /\ NotAStaticPath(last.path)
     /\ \A i \in RegIndices : ~PatternMatches(i, last.path))
    => last.out = Raised("NotFound")

\* A dynamic route that accepts the method is registered and the path does
\* not match it.
C7_Witness ==
    /\ last.op = "resolve"
    /\ NotAStaticPath(last.path)
    /\ \E i \in RegIndices : ~Reg(i).is_static /\ last.method \in Reg(i).methods_set
    /\ \A i \in RegIndices : ~PatternMatches(i, last.path)
    /\ last.out.kind = "NotFound"

-----------------------------------------------------------------------------
(* C8, C9: resolve and url_for as functions of the router *)

C9_LookupsAreReadOnly ==
    [][last'.op \in {"resolve", "url_for"} =>
           /\ static_routes' = static_routes
           /\ dynamic_routes' = dynamic_routes
           /\ endpoints' = endpoints]_vars

\* A lookup was made on a router that has static and dynamic routes.
C9_Witness ==
    /\ last.op \in {"resolve", "url_for"}
    /\ DOMAIN static_routes # {}
    /\ dynamic_routes # <<>>

-----------------------------------------------------------------------------
(* C10: the default method *)

\* The i-th route was registered with the methods argument omitted.
MethodsOmitted(i) == registered[i].methods = NoMethods

\* The i-th registered route is the one resolve finds for the path when the
\* method is GET: the latest static route of the path, or the first dynamic
\* route that takes the path with GET.
FoundWithGet(i, path) ==
    IF Reg(i).is_static THEN LatestStaticAt(i) /\ Reg(i).path = path
    ELSE NotAStaticPath(path) /\ FirstToTake(i, path, "GET")

\* C10: a route registered with methods omitted has the method set {GET}:
\* resolve of its path with GET returns its handler; with another method it
\* does not (MethodNotAllowed when the route is static).
C10_OmittedMethodsMeanGet ==
    \A i \in RegIndices :
        MethodsOmitted(i) =>
            /\ Reg(i).methods_set = {"GET"}
            /\ (last.op = "resolve" /\ last.method = "GET" /\ FoundWithGet(i, last.path))
               => last.out = Returned(Reg(i).handler, RouteMatch(Reg(i), last.path).params)
            /\ (last.op = "resolve" /\ last.method # "GET" /\ HandlerUnique(i))
               => last.out.handler # Reg(i).handler
            /\ (/\ last.op = "resolve" /\ last.method # "GET"
                /\ LatestStaticAt(i) /\ Reg(i).path = last.path)
               => last.out = Raised("MethodNotAllowed")

\* A route registered with methods omitted is asked for with POST.
C10_Witness ==
    /\ last.op = "resolve" /\ last.method = "POST"
    /\ \E i \in RegIndices :
        /\ MethodsOmitted(i) /\ HandlerUnique(i)
        /\ ~Reg(i).is_static
        /\ RouteMatch(Reg(i), last.path).matched
        /\ last.out.kind = "NotFound"

-----------------------------------------------------------------------------
(* C11: the parameter mapping *)

IsWord(s) == s # <<>> /\ \A k \in 1..Len(s) : s[k] \in WordChars

\* The place of the '>' that closes a marker <type:name> opening at i, or 0
\* when no marker opens at i.
MarkerClose(pattern, i) ==
    IF pattern[i] # "<" THEN 0
    ELSE LET closes == {j \in (i + 1)..Len(pattern) : pattern[j] = ">"}
             colons == {j \in (i + 1)..Len(pattern) : pattern[j] = ":"}
         IN  IF closes = {} \/ colons = {} THEN 0
             ELSE IF /\ SetMin(colons) < SetMin(closes)
                     /\ IsWord(SubSeq(pattern, i + 1, SetMin(colons) - 1))
                     /\ IsWord(SubSeq(pattern, SetMin(colons) + 1, SetMin(closes) - 1))
                  THEN SetMin(closes) ELSE 0

Literal(c) == [lit |-> c, type |-> <<>>, name |-> <<>>]
Marker(type, name) == [lit |-> "", type |-> type, name |-> name]

RECURSIVE PartsFrom(_, _)
\* What the pattern describes from place i on: literal characters and
\* markers, in order.
PartsFrom(pattern, i) ==
    IF i > Len(pattern) THEN <<>>
    ELSE LET e == MarkerClose(pattern, i) IN
         IF e = 0 THEN <<Literal(pattern[i])>> \o PartsFrom(pattern, i + 1)
         ELSE LET c == SetMin({j \in (i + 1)..Len(pattern) : pattern[j] = ":"}) IN
              <<Marker(SubSeq(pattern, i + 1, c - 1), SubSeq(pattern, c + 1, e - 1))>>
                  \o PartsFrom(pattern, e + 1)

Parts(pattern) == PartsFrom(pattern, 1)

\* The names the pattern's markers declare.
MarkerNames(pattern) ==
    {Parts(pattern)[k].name : k \in {j \in 1..Len(Parts(pattern)) : Parts(pattern)[j].lit = ""}}

\* The characters a parameter of the type stands for: digits for int, any
\* character for path, any character but the slash otherwise.
DeclaredClass(type) ==
    IF type = INT THEN DigitChars
    ELSE IF type = PATH THEN Alphabet
    ELSE Alphabet \ {"/"}

\* The value of a parameter of the type whose slot holds the text.
Typed(type, text) == IF type = INT THEN IntVal(DecimalValue(text, 0)) ELSE StrVal(text)

RECURSIVE Readings(_, _, _, _)
\* The ways to read the path from place i on as the parts from the k-th on:
\* each literal as itself, each marker as a non-empty run of its type's
\* characters. A reading has the typed value of every marker, and the rest of
\* the path behind the last part.
Readings(parts, k, path, i) ==
    IF k > Len(parts)
    THEN {[values |-> EmptyDict, rest |-> SubSeq(path, i, Len(path))]}
    ELSE IF parts[k].lit # ""
    THEN IF i <= Len(path) /\ path[i] = parts[k].lit
         THEN Readings(parts, k + 1, path, i + 1) ELSE {}
    ELSE UNION {
            {[values |-> (parts[k].name :> Typed(parts[k].type, SubSeq(path, i, j))) @@ r.values,
              rest |-> r.rest] : r \in Readings(parts, k + 1, path, j + 1)}
            : j \in {e \in i..Len(path) :
                        \A x \in i..e : path[x] \in DeclaredClass(parts[k].type)}}

HasNewline(path) == \E k \in 1..Len(path) : path[k] = "\n"

\* C11: when resolve answers with a dynamic route, the parameter mapping has
\* the names the route's pattern declares as its keys, and its values are
\* those of a reading of the path as the pattern: each marker's value is the
\* text in its slot, converted by the marker's type. On a path of one line
\* the reading takes the whole path.
C11_ParamsAreTheTypedSlots ==
    last.op = "resolve" =>
        \A i \in RegIndices :
            (NotAStaticPath(last.path) /\ FirstToTake(i, last.path, last.method)) =>
                /\ last.out.kind = "returned"
                /\ last.out.handler = Reg(i).handler
                /\ DOMAIN last.out.params = MarkerNames(Reg(i).path)
                /\ \E r \in Readings(Parts(Reg(i).path), 1, last.path, 1) :
                        /\ last.out.params = r.values
                        /\ ~HasNewline(last.path) => r.rest = <<>>

\* A route with two int markers answered, with two different integers.
C11_Witness ==
    /\ last.op = "resolve" /\ last.out.kind = "returned"
    /\ \E i \in RegIndices :
        /\ NotAStaticPath(last.path) /\ FirstToTake(i, last.path, last.method)
        /\ Cardinality(MarkerNames(Reg(i).path)) = 2
        /\ \E a, b \in DOMAIN last.out.params :
            /\ a # b
            /\ last.out.params[a].t = "int" /\ last.out.params[b].t = "int"
            /\ last.out.params[a] # last.out.params[b]

-----------------------------------------------------------------------------
(* C12: str and path parameters *)

\* The i-th registered route has one marker, of the type.
OneMarkerRoute(i, type) == OneMarker(Reg(i).path) /\ MarkerType(Reg(i).path) = type

HasSlash(s) == \E k \in 1..Len(s) : s[k] = "/"

\* The i-th route does not take the call: resolve answers with a later route
\* that takes it, or with NotFound.
PassedOver(i, path, method) ==
    \/ /\ last.out = Raised("NotFound")
       /\ \A j \in RegIndices : j > i => ~Takes(j, path, method)
    \/ \E j \in RegIndices :
        /\ j > i
        /\ Takes(j, path, method)
        /\ last.out = Returned(Reg(j).handler, RouteMatch(Reg(j), path).params)

\* The i-th route answers, its one parameter bound to the text.
AnswersWith(i, text) ==
    last.out = Returned(Reg(i).handler, MarkerName(Reg(i).path) :> StrVal(text))

\* C12: when resolve puts a path to a route with one str parameter, a
\* non-empty slot without a slash gives the route's handler and the slot as
\* the parameter, and a slot with a slash is not matched by the route. When it
\* puts a path to a route with one path parameter, a non-empty slot gives the
\* route's handler and the whole slot as the parameter, slashes included (on
\* a path of more than one line: a non-empty run at the slot's place, if the
\* route answers).
C12_StrStopsAtSlashPathDoesNot ==
    last.op = "resolve" =>
        \A i \in RegIndices :
            /\ (OneMarkerRoute(i, STR) /\ AskedFirst(i, last.path, last.method)) =>
                    IF /\ HasSlot(Reg(i).path, last.path)
                       /\ ~HasSlash(Slot(Reg(i).path, last.path))
                    THEN AnswersWith(i, Slot(Reg(i).path, last.path))
                    ELSE PassedOver(i, last.path, last.method)
            /\ (OneMarkerRoute(i, PATH) /\ AskedFirst(i, last.path, last.method)) =>
                    IF HasSlot(Reg(i).path, last.path) /\ ~HasNewline(last.path)
                    THEN AnswersWith(i, Slot(Reg(i).path, last.path))
                    ELSE \/ PassedOver(i, last.path, last.method)
                         \/ \E r \in Readings(Parts(Reg(i).path), 1, last.path, 1) :
                                last.out = Returned(Reg(i).handler, r.values)

\* A path whose slot holds a slash was put to a str route and to a path route:
\* the str route was passed over, the path route answered with the whole slot.
C12_Witness ==
    /\ last.op = "resolve"
    /\ \E i, j \in RegIndices :
        /\ i < j
        /\ OneMarkerRoute(i, STR) /\ AskedFirst(i, last.path, last.method)
        /\ OneMarkerRoute(j, PATH) /\ last.method \in Reg(j).methods_set
        /\ HasSlot(Reg(j).path, last.path)
        /\ HasSlash(Slot(Reg(j).path, last.path))
        /\ AnswersWith(j, Slot(Reg(j).path, last.path))

-----------------------------------------------------------------------------
(* C13: the host's answers *)

\* The status code of the response that went out.
HttpStatus == ParseInt(SubSeq(served.status, 1, 3))

\* C13: the host answers 404 when resolve raises NotFound and 405 when it
\* raises MethodNotAllowed, and invokes no handler then; when resolve returns,
\* it invokes the returned handler once, with the request and the parameters
\* as keyword arguments.
C13_HostAnswersByOutcome ==
    last.op = "handle" =>
        /\ last.out.kind = "NotFound" =>
                served.invoked = <<>> /\ served.sent /\ HttpStatus = 404
        /\ last.out.kind = "MethodNotAllowed" =>
                served.invoked = <<>> /\ served.sent /\ HttpStatus = 405
        /\ last.out.kind = "returned" =>
                served.invoked = <<[handler |-> last.out.handler,
                                    req |-> [path |-> last.path, method |-> last.method],
                                    keywords |-> last.out.params]>>

-----------------------------------------------------------------------------
(* C14: resolve calls side by side on a finished router *)

\* C14: with every add_route done before the first resolve begins, a resolve
\* call that has come back, whatever ran beside it, has the outcome that
\* resolve gives on the router when it runs alone.
C14_ConcurrentResolvesAsAlone ==
    \A t \in Tasks :
        tasks[t].pc = "done" =>
            tasks[t].out = Resolve(static_routes, dynamic_routes,
                                   tasks[t].path, tasks[t].method)

\* A resolve came back with a dynamic route's answer after running beside
\* another task, which is still inside the loop, on a different call.
C14_Witness ==
    \E t, u \in Tasks :
        /\ t # u
        /\ tasks[t].pc = "done" /\ tasks[t].beside
        /\ tasks[t].out.kind = "returned" /\ DOMAIN tasks[t].out.params # {}
        /\ tasks[u].pc = "scan" /\ tasks[u].i > 1
        /\ <<tasks[u].path, tasks[u].method>> # <<tasks[t].path, tasks[t].method>>

-----------------------------------------------------------------------------
(* C15: the default endpoint name *)

\* C15: an add_route with endpoint omitted that returns has registered its
\* route under the handler's declared name; and an add_route with endpoint
\* omitted, of a handler whose declared name an earlier route of a handler of
\* that name is registered under, fails as a duplicate endpoint.
C15_DefaultEndpointIsHandlerName ==
    (last.op = "add_route" /\ last.endpoint = None) =>
        /\ last.out.kind = "returned" =>
                Reg(Len(registered)).endpoint = last.handler.name
        /\ (\E k \in 1..Len(RegisteredBefore) :
                /\ RegisteredBefore[k].route.handler.name = last.handler.name
                /\ RegisteredBefore[k].route.endpoint = last.handler.name)
           => last.out = Raised("DuplicateEndpoint")

-----------------------------------------------------------------------------
(* C16: static routes before dynamic routes *)

\* C16: when the path is the path of a static route, the static route held
\* for it decides the outcome alone: the outcome is that route's handler with
\* no parameters or MethodNotAllowed, it is MethodNotAllowed when the route
\* does not accept the method, whatever dynamic routes would take the call,
\* and it is the outcome on the same router without its dynamic routes.
C16_StaticRouteDecidesAlone ==
    last.op = "resolve" =>
        \A i \in RegIndices :
            (LatestStaticAt(i) /\ Reg(i).path = last.path) =>
                /\ last.out \in {Returned(Reg(i).handler, EmptyDict),
                                 Raised("MethodNotAllowed")}
                /\ last.method \notin Reg(i).methods_set =>
                        last.out = Raised("MethodNotAllowed")
                /\ last.out = Resolve(static_routes, <<>>, last.path, last.method)

\* The static route of the path does not accept the method and a dynamic
\* route would take the call: the answer is MethodNotAllowed.
C16_Witness ==
    /\ last.op = "resolve"
    /\ last.out = Raised("MethodNotAllowed")
    /\ \E i, j \in RegIndices :
        /\ LatestStaticAt(i) /\ Reg(i).path = last.path
        /\ last.method \notin Reg(i).methods_set
        /\ Takes(j, last.path, last.method)

-----------------------------------------------------------------------------
(* C17: dynamic routes of another method *)

\* The dynamic routes that accept the method, in order.
AcceptingRoutes(dr, method) ==
    LET Accepts(route) == method \in route.methods_set IN SelectSeq(dr, Accepts)

\* C17: for a path that is not the path of a static route, the outcome is the
\* one resolve gives with the dynamic routes that do not accept the method
\* taken away, it is never MethodNotAllowed, and it is NotFound when patterns
\* match the path only in routes that do not accept the method.
\* MethodNotAllowed comes only for the path of a static route.
C17_OtherMethodRoutesAreSkipped ==
    last.op = "resolve" =>
        /\ NotAStaticPath(last.path) =>
            /\ last.out = Resolve(static_routes,
                                  AcceptingRoutes(dynamic_routes, last.method),
                                  last.path, last.method)
            /\ last.out.kind # "MethodNotAllowed"
            /\ (\A i \in RegIndices : ~Takes(i, last.path, last.method))
                    => last.out = Raised("NotFound")
        /\ last.out.kind = "MethodNotAllowed" =>
                \E i \in RegIndices : Reg(i).is_static /\ Reg(i).path = last.path

\* The path matches the pattern of a dynamic route that does not accept the
\* method, no route takes the call, and the answer is NotFound.
C17_Witness ==
    /\ last.op = "resolve"
    /\ NotAStaticPath(last.path)
    /\ \E i \in RegIndices :
        PatternMatches(i, last.path) /\ last.method \notin Reg(i).methods_set
    /\ \A i \in RegIndices : ~Takes(i, last.path, last.method)
    /\ last.out = Raised("NotFound")

-----------------------------------------------------------------------------
(* C18: the whole path *)

\* The pattern describes the whole path: there is a reading of the path as
\* the pattern's parts that leaves nothing of the path over.
DescribesWholePath(pattern, path) ==
    \E r \in Readings(Parts(pattern), 1, path, 1) : r.rest = <<>>

\* C18: a dynamic route's match succeeds only on a path that its pattern
\* describes from the first character to the last; a path with characters
\* before or behind that text is not matched.
C18_MatchCoversTheWholePath ==
    last.op = "resolve" =>
        \A i \in RegIndices :
            PatternMatches(i, last.path) => DescribesWholePath(Reg(i).path, last.path)

-----------------------------------------------------------------------------
(* C19: a static path registered again *)

\* The paths of the registered static routes.
StaticPaths == {Reg(i).path : i \in {k \in RegIndices : Reg(k).is_static}}

\* C19: an add_route of a static path that a static route with another
\* endpoint name has returns normally, and from then on static_routes holds
\* the new route for the path: static_routes has one entry for each static
\* path, the route registered last for it, and resolve of a path registered
\* twice answers by the later route's handler and method set.
C19_StaticPathIsReplaced ==
    /\ (/\ last.op = "add_route"
        /\ \E k \in 1..Len(RegisteredBefore) :
              /\ RegisteredBefore[k].route.is_static
              /\ RegisteredBefore[k].route.path = last.path
              /\ RegisteredBefore[k].route.endpoint
                    # EndpointOrDefault(last.endpoint, last.handler))
       => /\ last.out.kind = "returned"
          /\ static_routes[last.path] = Reg(Len(registered))
          /\ Reg(Len(registered)).handler = last.handler
    /\ DOMAIN static_routes = StaticPaths
    /\ \A i \in RegIndices : LatestStaticAt(i) => static_routes[Reg(i).path] = Reg(i)
    /\ last.op = "resolve" =>
          \A i, j \in RegIndices :
              (/\ i < j
               /\ Reg(i).is_static /\ LatestStaticAt(j)
               /\ Reg(i).path = last.path /\ Reg(j).path = last.path)
              => last.out = StaticAnswer(Reg(j), last.method)

\* A static path was registered twice, under two endpoint names, with
\* different handlers and method sets, and resolve was asked with a method
\* that only the first accepts.
C19_Witness ==
    /\ last.op = "resolve"
    /\ \E i, j \in RegIndices :
        /\ i < j
        /\ Reg(i).is_static /\ Reg(j).is_static
        /\ Reg(i).path = last.path /\ Reg(j).path = last.path
        /\ Reg(i).endpoint # Reg(j).endpoint
        /\ Reg(i).handler # Reg(j).handler
        /\ last.method \in Reg(i).methods_set \ Reg(j).methods_set
        /\ last.out = Raised("MethodNotAllowed")
        /\ static_routes[last.path] = Reg(j)

-----------------------------------------------------------------------------
(* C20: static or dynamic *)

\* The pattern has no substring of the form <type:name>.
HasNoMarker(pattern) == MarkerNames(pattern) = {}

\* C20: a registered route is static exactly when its pattern has no marker;
\* a route without a marker is held in static_routes under its pattern, and
\* resolve matches it by equality of the path with the pattern: the path of
\* a route without a marker, asked with a method that no route of the path
\* accepts, gives MethodNotAllowed.
C20_StaticMeansNoMarker ==
    /\ \A i \in RegIndices :
          /\ Reg(i).is_static <=> HasNoMarker(Reg(i).path)
          /\ HasNoMarker(Reg(i).path) => Reg(i).path \in DOMAIN static_routes
    /\ (/\ last.op = "resolve"
        /\ \E i \in RegIndices : HasNoMarker(Reg(i).path) /\ Reg(i).path = last.path
        /\ \A i \in RegIndices :
              (HasNoMarker(Reg(i).path) /\ Reg(i).path = last.path)
                  => last.method \notin Reg(i).methods_set)
       => last.out = Raised("MethodNotAllowed")

-----------------------------------------------------------------------------
(* C21: dynamic_routes only grows at its end *)

IsPrefixOf(a, b) == Len(a) <= Len(b) /\ SubSeq(b, 1, Len(a)) = a

\* C21: in every step dynamic_routes keeps its contents as a prefix; an
\* add_route that registers a dynamic route leaves it as the one element
\* behind that prefix, and every other step (a failed add_route, a static
\* registration, resolve, url_for) leaves dynamic_routes as it was.
C21_DynamicRoutesAppendOnly ==
    [][/\ IsPrefixOf(dynamic_routes, dynamic_routes')
       /\ IF /\ Len(registered') = Len(registered) + 1
             /\ ~registered'[Len(registered')].route.is_static
          THEN dynamic_routes' = Append(dynamic_routes, registered'[Len(registered')].route)
          ELSE dynamic_routes' = dynamic_routes]_vars

\* An add_route failed on a router that has a dynamic route, and the route is
\* still there, alone.
C21_Witness ==
    /\ last.op = "add_route" /\ last.out.kind # "returned"
    /\ Len(registered) = 1
    /\ dynamic_routes = <<Reg(1)>>

-----------------------------------------------------------------------------
(* C22: markers of an unknown type *)

\* The i-th registered route has one marker, of a type that is none of str,
\* int and path.
UnknownTypeRoute(i) ==
    OneMarker(Reg(i).path) /\ MarkerType(Reg(i).path) \notin {STR, INT, PATH}

\* The i-th route is the only one registered under its endpoint name.
EndpointUnique(i) == \A j \in RegIndices : j # i => Reg(j).endpoint # Reg(i).endpoint

\* C22: a marker of an unknown type is a str marker. When resolve puts a path
\* to a route with one such marker, a non-empty slot without a slash gives
\* the route's handler and the slot as a string, and any other path is not
\* matched by the route; and url_for of the route's endpoint with a value for
\* the marker's name returns the pattern with the marker replaced by the
\* value.
C22_UnknownTypeIsStr ==
    \A i \in RegIndices :
        UnknownTypeRoute(i) =>
            /\ (last.op = "resolve" /\ AskedFirst(i, last.path, last.method)) =>
                    IF /\ HasSlot(Reg(i).path, last.path)
                       /\ ~HasSlash(Slot(Reg(i).path, last.path))
                    THEN AnswersWith(i, Slot(Reg(i).path, last.path))
                    ELSE PassedOver(i, last.path, last.method)
            /\ (/\ last.op = "url_for"
                /\ last.endpoint = Reg(i).endpoint /\ EndpointUnique(i)
                /\ MarkerName(Reg(i).path) \in DOMAIN last.params)
               => last.out = ReturnedUrl(TextBefore(Reg(i).path)
                                         \o PyStr(last.params[MarkerName(Reg(i).path)])
                                         \o TextAfter(Reg(i).path))

-----------------------------------------------------------------------------
(* C23: a conversion that fails *)

\* The path fits the i-th route, which has one int marker, but the digits in
\* the slot are more than int() converts.
ConversionFails(i, path) ==
    /\ IntRoute(i)
    /\ HasSlot(Reg(i).path, path)
    /\ IsDigitRun(Slot(Reg(i).path, path))
    /\ Len(Slot(Reg(i).path, path)) > IntMaxStrDigits

\* C23: resolve ends with a handler, NotFound or MethodNotAllowed, never with
\* a conversion error; a route whose conversion fails on the path does not
\* match it, and when resolve puts the path to such a route, the answer is
\* that of a later route that takes the call, or NotFound.
C23_FailedConversionIsNoMatch ==
    last.op = "resolve" =>
        /\ last.out.kind \in {"returned", "NotFound", "MethodNotAllowed"}
        /\ \A i \in RegIndices :
              ConversionFails(i, last.path) =>
                  /\ RouteMatch(Reg(i), last.path) = Unmatched
                  /\ AskedFirst(i, last.path, last.method) =>
                          PassedOver(i, last.path, last.method)

\* The conversion failed in an int route and a str route registered behind it
\* answered with the digits as a string.
C23_Witness ==
    /\ last.op = "resolve"
    /\ \E i, j \in RegIndices :
        /\ i < j
        /\ ConversionFails(i, last.path) /\ AskedFirst(i, last.path, last.method)
        /\ OneMarkerRoute(j, STR)
        /\ last.out = Returned(Reg(j).handler,
                               MarkerName(Reg(j).path) :> StrVal(Slot(Reg(j).path, last.path)))

-----------------------------------------------------------------------------
(* C24: an empty list of methods *)

\* The i-th route was registered with methods=[].
MethodsEmpty(i) == registered[i].methods = <<>>

\* C24: a route registered with an empty list of methods has the method set
\* {GET}, and resolve with GET of a path that it matches, and that no route
\* before it takes, returns its handler.
C24_EmptyMethodsMeanGet ==
    \A i \in RegIndices :
        MethodsEmpty(i) =>
            /\ Reg(i).methods_set = {"GET"}
            /\ (/\ last.op = "resolve" /\ last.method = "GET"
                /\ NotAStaticPath(last.path)
                /\ PatternMatches(i, last.path)
                /\ \A k \in RegIndices : k < i => ~Takes(k, last.path, "GET"))
               => last.out = Returned(Reg(i).handler, RouteMatch(Reg(i), last.path).params)

-----------------------------------------------------------------------------
(* C25: add_route during a resolve *)

\* static_routes as it was when k routes were registered: for every static
\* path among the first k, the route registered last for it.
StaticRoutesAt(k) ==
    LET firstK == {i \in 1..k : Reg(i).is_static} IN
    [p \in {Reg(i).path : i \in firstK} |->
        Reg(SetMax({i \in firstK : Reg(i).path = p}))]

\* dynamic_routes as it was when k routes were registered.
DynamicRoutesAt(k) ==
    LET IsDynamic(r) == ~r.route.is_static
        firstK == SelectSeq(SubSeq(registered, 1, k), IsDynamic)
    IN  [i \in 1..Len(firstK) |-> firstK[i].route]

\* What resolve gives when it runs alone on the router as it was when k
\* routes were registered.
OutcomeAt(k, path, method) ==
    Resolve(StaticRoutesAt(k), DynamicRoutesAt(k), path, method)

\* C25: a resolve that has come back, with add_route calls running between
\* its statements, has an outcome that resolve gives when it runs alone on
\* one of the router states that existed between its start and its end.
C25_ResolveSeesOneRouterState ==
    \A t \in Tasks :
        tasks[t].pc = "done" =>
            \E k \in tasks[t].began..tasks[t].ended :
                tasks[t].out = OutcomeAt(k, tasks[t].path, tasks[t].method)

-----------------------------------------------------------------------------
(* C26: the two collections *)

\* The routes that dynamic_routes holds.
DynamicRouteSet == {dynamic_routes[k] : k \in 1..Len(dynamic_routes)}

\* The routes that static_routes holds.
StaticRouteSet == {static_routes[p] : p \in DOMAIN static_routes}

\* C26: every value of static_routes is a static route kept under its own
\* path, every element of dynamic_routes is a dynamic route with a compiled
\* matcher, no route is in both, and the route of a successful add_route is
\* in static_routes or in dynamic_routes, and in one of them only.
C26_CollectionsPartitionByKind ==
    /\ \A p \in DOMAIN static_routes :
          static_routes[p].is_static /\ static_routes[p].path = p
    /\ \A k \in 1..Len(dynamic_routes) :
          /\ ~dynamic_routes[k].is_static
          /\ dynamic_routes[k].regex # <<>>
          /\ ~ReCompileRaises(dynamic_routes[k].regex)
    /\ StaticRouteSet \cap DynamicRouteSet = {}
    /\ Len(dynamic_routes) = Cardinality({i \in RegIndices : ~Reg(i).is_static})
    /\ (last.op = "add_route" /\ last.out.kind = "returned") =>
          LET route == Reg(Len(registered)) IN
          (route \in StaticRouteSet) # (route \in DynamicRouteSet)

\* Both collections hold routes, and the latest call registered one more.
C26_Witness ==
    /\ last.op = "add_route" /\ last.out.kind = "returned"
    /\ DOMAIN static_routes # {}
    /\ dynamic_routes # <<>>
    /\ Len(registered) = 2

-----------------------------------------------------------------------------
(* C27: url_for and back *)

\* The markers of the pattern.
Markers(pattern) ==
    {Parts(pattern)[k] : k \in {j \in 1..Len(Parts(pattern)) : Parts(pattern)[j].lit = ""}}

\* params has a value for every marker of the pattern and for nothing else,
\* a non-negative integer for an int marker and a non-empty string without a
\* slash for a str marker.
WellTyped(pattern, params) ==
    /\ DOMAIN params = MarkerNames(pattern)
    /\ \A mk \in Markers(pattern) :
          /\ mk.type \in {INT, STR}
          /\ IF mk.type = INT
             THEN params[mk.name].t = "int" /\ params[mk.name].n >= 0
             ELSE /\ params[mk.name].t = "str"
                  /\ params[mk.name].s # <<>>
                  /\ ~HasSlash(params[mk.name].s)

\* C27: on a router whose only route is dynamic, url_for of the route's
\* endpoint with well-typed values returns a path, and resolve of that path
\* with any method of the route returns the route's handler and the values.
C27_UrlForThenResolve ==
    (/\ last.op = "url_for"
     /\ Len(registered) = 1 /\ ~Reg(1).is_static
     /\ Reg(1).endpoint = last.endpoint
     /\ WellTyped(Reg(1).path, last.params))
    => /\ last.out.kind = "returned"
       /\ \A m \in Reg(1).methods_set :
             Resolve(static_routes, dynamic_routes, last.out.url, m)
                 = Returned(Reg(1).handler, last.params)

-----------------------------------------------------------------------------
(* C28: the literal text of a pattern *)

\* The path can be read as the pattern, with something behind it or not:
\* every character outside the slots of the markers is the pattern's own.
LiteralTextAgrees(pattern, path) == Readings(Parts(pattern), 1, path, 1) # {}

\* C28: a dynamic route's match succeeds only on a path whose characters
\* outside the parameters are the literal characters of the pattern, each at
\* its place.
C28_LiteralTextMatchesItself ==
    last.op = "resolve" =>
        \A i \in RegIndices :
            PatternMatches(i, last.path) => LiteralTextAgrees(Reg(i).path, last.path)

-----------------------------------------------------------------------------
(* C29: resolve ends *)

\* The handlers of the registered routes.
RegisteredHandlers == {Reg(i).handler : i \in RegIndices}

\* C29: a resolve that has begun comes to its end; on the way the loop goes
\* from each dynamic route to the next one, never back and never past the end
\* of the list; and the end is a handler of a registered route with
\* parameters, NotFound, or MethodNotAllowed.
C29_ResolveTerminates ==
    /\ Inside(Reader) ~> tasks[Reader].pc = "done"
    /\ [][(tasks[Reader].pc = "scan" /\ tasks'[Reader].pc = "scan") =>
              /\ tasks[Reader].i <= Len(dynamic_routes)
              /\ tasks'[Reader].i = tasks[Reader].i + 1]_vars
    /\ [](tasks[Reader].pc = "done" =>
              \/ /\ tasks[Reader].out.kind = "returned"
                 /\ tasks[Reader].out.handler \in RegisteredHandlers
              \/ tasks[Reader].out \in {Raised("NotFound"), Raised("MethodNotAllowed")})

\* A resolve ended with NotFound behind the second of two dynamic routes.
C29_Witness ==
    /\ tasks[Reader].pc = "done"
    /\ tasks[Reader].out = Raised("NotFound")
    /\ Len(dynamic_routes) = 2
    /\ tasks[Reader].i = 3

-----------------------------------------------------------------------------
(* C30: what resolve returns *)

\* C30: when resolve returns a handler and parameters, one of the routes that
\* the router holds has that handler, accepts the method, and its own match
\* of the path succeeds with those parameters.
C30_ReturnedRouteTakesTheCall ==
    (last.op = "resolve" /\ last.out.kind = "returned") =>
        \E route \in StaticRouteSet \cup DynamicRouteSet :
            /\ route.handler = last.out.handler
            /\ last.method \in route.methods_set
            /\ RouteMatch(route, last.path) = [matched |-> TRUE, params |-> last.out.params]

\* resolve returned a dynamic route's handler on a router that also holds a
\* route of another handler which matches the path and does not accept the
\* method.
C30_Witness ==
    /\ last.op = "resolve" /\ last.out.kind = "returned"
    /\ DOMAIN last.out.params # {}
    /\ \E route \in DynamicRouteSet :
        /\ route.handler # last.out.handler
        /\ RouteMatch(route, last.path).matched
        /\ last.method \notin route.methods_set

====
